---- MODULE Spec2Model ----
(***************************************************************************)
(* Model of gulpfile.babel.js: the sixteen registered gulp tasks, the     *)
(* task runner they are registered with (gulp 3 / orchestrator), the       *)
(* run-sequence helper used by 'default' and 'dist', and the four watch    *)
(* bindings of 'serve'.  One gulp process is modelled at a time; the       *)
(* working tree, the public tree and the image cache outlive a process.    *)
(***************************************************************************)
EXTENDS Integers, Sequences, FiniteSets, TLC

\* ------------------------------------------------------------------ bounds
MaxRuns == 2        \* gulp invocations in one behaviour
MaxEvents == 1      \* saves of source files in one behaviour of Spec
MaxChanges == 2     \* saves of source files in one behaviour of SpecWatch

\* --------------------------------------------------------- registered tasks
Tasks ==
  {"images", "styles", "lint", "scripts", "uncss", "html", "htmlhint",
   "pageres", "clean", "serve", "default", "dist", "pagespeed",
   "generate-favicon", "inject-favicon-markups", "check-for-favicon-update"}

\* a bug: 'default' and 'dist' registered without their ['clean']
DepDropped(t) == <<>>

\* gulp.task(name, deps, fn): the declared prerequisites of a task
Dep(t) == IF t \in {"default", "dist"} THEN <<"clean">> ELSE <<>>

\* a bug: the four names handed to runSequence in one array
DefaultUnsequenced == << <<"styles", "lint", "scripts", "images">> >>

\* the arguments 'default' hands to runSequence
DefaultSequence == << <<"styles">>, <<"lint", "scripts", "images">> >>

\* a bug: 'uncss' put in the array of 'styles'
DistUncssEarly == << <<"styles", "uncss">>, <<"lint", "scripts", "images">> >>

\* the arguments 'dist' hands to runSequence
DistSequence == << <<"styles">>, <<"lint", "uncss", "scripts", "images">> >>

TaskSetsOf(t) == IF t = "default" THEN DefaultSequence ELSE DistSequence

\* how a task's function tells the runner that it is over:
\*   "stream"/"promise": the returned stream or promise ends
\*   "callback": the function takes a callback and the code calls it
\*   "sync": the function returns nothing, the runner takes it as finished
\*   "never": the function takes a callback that no path of the code calls
Kind(t) ==
  CASE t \in {"images", "styles", "lint", "scripts", "uncss", "html", "htmlhint"} -> "stream"
    [] t \in {"pageres", "clean"} -> "promise"
    [] t \in {"default", "dist", "pagespeed", "generate-favicon"} -> "callback"
    [] t \in {"serve", "inject-favicon-markups"} -> "sync"
    [] OTHER -> "never"

\* tasks whose returned stream, promise or callback can carry an error:
\* the last stream of the pipe is a gulp.dest (styles, scripts, uncss, html),
\* a promise (clean, pageres) or a node callback (pagespeed).  'lint' is
\* decided by LintFailOnError; 'images' and 'htmlhint' end in a reporter and
\* 'generate-favicon' calls done() without an argument.
MayFail == {"styles", "scripts", "uncss", "html", "clean", "pageres", "pagespeed"}

\* tasks with a plugin in the middle of the pipe whose 'error' event nobody
\* listens to ($.imagemin, $.autoprefixer, $.cssnano, $.babel, $.uglify,
\* $.uncss, $.useref, $.htmlmin): the event is thrown and ends the process
MayCrash == {"images", "styles", "scripts", "uncss", "html"}

\* tasks that read faviconData.json with readFileSync in their body
ReadsFaviconData == {"inject-favicon-markups", "check-for-favicon-update"}

\* the four gulp.watch bindings of 'serve': glob -> tasks, then reload
WatchTasks(b) ==
  CASE b = "twig" -> <<"htmlhint">>
    [] b = "styles" -> <<"styles">>
    [] b = "scripts" -> <<"lint", "scripts">>
    [] OTHER -> <<"images">>

Bindings == {"twig", "styles", "scripts", "images"}

\* a bug: failOnError piped without the $.if
LintAlwaysFailOnError(active) == TRUE

\* $.if(!browserSync.active, $.eslint.failOnError())
LintFailOnError(active) == ~active

\* a bug: 'clean' also clears the cache of $.cache
CleanTargetsAndCache ==
  {".tmp/styles", ".tmp/scripts", "public/styles", "public/scripts",
   "imagecache"}

\* del([...]) of 'clean'
CleanTargets == {".tmp/styles", ".tmp/scripts", "public/styles", "public/scripts"}

\* a bug: the last gulp.dest of 'scripts' names public/styles
WritesScriptsAstray(t) ==
  CASE t = "images" -> {"public/images", "imagecache"}
    [] t = "styles" -> {".tmp/styles", "public/styles"}
    [] t = "scripts" -> {".tmp/scripts", "public/styles"}
    [] t = "uncss" -> {"public/styles"}
    [] t = "html" -> {"craft/templates"}
    [] t = "pageres" -> {"readme_assets"}
    [] t = "clean" -> CleanTargets
    [] t = "generate-favicon" -> {"public/favicon"}
    [] t = "inject-favicon-markups" -> {"craft/templates"}
    [] OTHER -> {}

\* directories a task's pipeline writes (gulp.dest, del, the cache of $.cache)
Writes(t) ==
  CASE t = "images" -> {"public/images", "imagecache"}
    [] t = "styles" -> {".tmp/styles", "public/styles"}
    [] t = "scripts" -> {".tmp/scripts", "public/scripts"}
    [] t = "uncss" -> {"public/styles"}
    [] t = "html" -> {"craft/templates"}
    [] t = "pageres" -> {"readme_assets"}
    [] t = "clean" -> CleanTargets
    [] t = "generate-favicon" -> {"public/favicon"}
    [] t = "inject-favicon-markups" -> {"craft/templates"}
    [] OTHER -> {}

\* directories a task's pipeline reads (gulp.src, $.newer, the cache)
Reads(t) ==
  CASE t = "images" -> {"resources/images", "imagecache"}
    [] t = "styles" -> {"resources/styles", ".tmp/styles"}
    [] t = "lint" -> {"resources/scripts"}
    [] t = "scripts" -> {"node_modules", "resources/scripts", ".tmp/scripts"}
    [] t = "uncss" -> {"public/styles"}
    [] t = "html" -> {"craft/templates", ".tmp/styles", ".tmp/scripts"}
    [] t = "htmlhint" -> {"craft/templates"}
    [] t = "generate-favicon" -> {"public/images"}
    [] t = "inject-favicon-markups" -> {"craft/templates"}
    [] OTHER -> {}

\* ------------------------------------------------------------ image files
ImgFiles == {"logo", "hero"}
Contents == {1, 2}
Absent == 0
\* $.imagemin: the optimised bytes of a file with the given bytes
Imagemin(c) == c + 10

\* ---------------------------------------------------------------- state
VARIABLES
  proc,            \* "none", "live" or "exit": the gulp process
  cmd,             \* the task named on the command line
  runs,            \* gulp invocations so far
  events,          \* source edits so far
  isRunning,       \* orchestrator.isRunning
  seq,             \* orchestrator.seq
  done,            \* task.done
  running,         \* task.running
  doneCallback,    \* orchestrator.doneCallback: "none" or "reload"
  rsOn,            \* run-sequence's listeners are registered
  taskSets,        \* run-sequence: the sets still to start
  currentTaskSet,  \* run-sequence: the tasks of the set in flight
  rsCb,            \* run-sequence: the task whose callback ends the sequence
  started,         \* per task: times its function was called in this process
  reported,        \* per task: last task_stop ("ok") or task_err ("err") event
  work,            \* per task: "idle", "busy" or "finished" pipeline
  failed,          \* the CLI saw an 'err' event (exit code 1)
  crashed,         \* the process died on an uncaught exception
  watching,        \* the gulp.watch bindings are registered
  active,          \* browserSync.active
  lintFailOn,      \* the failOnError stage is in the lint pipe in flight
  lintActive,      \* browserSync.active as it was when that pipe was built
  ev,              \* per binding: change events delivered in this process
  reloads,         \* calls of browserSync.reload in this process
  reloadErrs,      \* of which: calls made when the rebuild had failed
  lintErr,         \* resources/scripts has a lint error
  sassErr,         \* resources/styles has a syntax error
  resImages,       \* resources/images: file -> bytes
  pubImages,       \* public/images: file -> bytes or Absent
  cache,           \* the content-keyed cache of $.cache
  optCalls,        \* cumulative invocations of imagemin
  pubStyles,       \* public/styles/app.css: "absent", "compiled", "stripped"
  faviconData,     \* faviconData.json exists
  cleanSince,      \* 'clean' completed since the last completed 'images'
  lastImg,         \* the last completed run of 'images': its input, the
                   \* imagemin calls it made, whether 'clean' ran before it,
                   \* whether it repeats the input of the run before it and
                   \* whether it left public/images as that run had
  lastLint,        \* the last completed run of 'lint'
  lastStyles       \* the last completed run of 'styles'

orcVars ==
  <<isRunning, seq, done, running, doneCallback, rsOn, taskSets,
    currentTaskSet, rsCb, started, reported, work, failed, watching,
    reloads, reloadErrs>>
fsVars ==
  <<lintErr, sassErr, resImages, pubImages, cache, optCalls, pubStyles,
    faviconData, cleanSince, lastImg>>
vars ==
  <<proc, cmd, runs, events, orcVars, crashed, active, lintFailOn, lintActive, ev,
    fsVars, lastLint, lastStyles>>


\* ------------------------------------------------- the task runner's heap
\* The handlers below run to completion inside one turn of the event loop;
\* they are written as operators over one record of the runner's fields.
Heap ==
  [isRunning |-> isRunning, seq |-> seq, done |-> done, running |-> running,
   doneCallback |-> doneCallback, rsOn |-> rsOn, taskSets |-> taskSets,
   currentTaskSet |-> currentTaskSet, rsCb |-> rsCb, started |-> started,
   reported |-> reported, work |-> work, failed |-> failed,
   watching |-> watching, reloads |-> reloads, reloadErrs |-> reloadErrs,
   faviconData |-> faviconData]

FreshHeap ==
  [isRunning |-> FALSE, seq |-> <<>>, done |-> [t \in Tasks |-> FALSE],
   running |-> [t \in Tasks |-> FALSE], doneCallback |-> "none",
   rsOn |-> FALSE, taskSets |-> <<>>, currentTaskSet |-> {}, rsCb |-> "none",
   started |-> [t \in Tasks |-> 0], reported |-> [t \in Tasks |-> "none"],
   work |-> [t \in Tasks |-> "idle"], failed |-> FALSE, watching |-> FALSE,
   reloads |-> 0, reloadErrs |-> 0, faviconData |-> faviconData]

Commit(h) ==
  /\ isRunning' = h.isRunning
  /\ seq' = h.seq
  /\ done' = h.done
  /\ running' = h.running
  /\ doneCallback' = h.doneCallback
  /\ rsOn' = h.rsOn
  /\ taskSets' = h.taskSets
  /\ currentTaskSet' = h.currentTaskSet
  /\ rsCb' = h.rsCb
  /\ started' = h.started
  /\ reported' = h.reported
  /\ work' = h.work
  /\ failed' = h.failed
  /\ watching' = h.watching
  /\ reloads' = h.reloads
  /\ reloadErrs' = h.reloadErrs

Range(s) == {s[i] : i \in 1..Len(s)}

\* sequencify: prerequisites first, every name once
RECURSIVE sequence(_, _)
sequence(names, results) ==
  IF names = <<>> THEN results
  ELSE LET name == Head(names) IN
       IF name \in Range(results) THEN sequence(Tail(names), results)
       ELSE sequence(Tail(names), Append(sequence(Dep(name), results), name))

\* orchestrator._resetSpecificTasks: the named tasks and their prerequisites
RECURSIVE resetSpecificTasks(_, _)
resetSpecificTasks(h, names) ==
  IF names = <<>> THEN h
  ELSE LET t == Head(names)
           h1 == [h EXCEPT !.done[t] = FALSE]
       IN resetSpecificTasks(resetSpecificTasks(h1, Dep(t)), Tail(names))

\* orchestrator._resetAllTasks
resetAllTasks(h) == [h EXCEPT !.done = [t \in Tasks |-> FALSE]]

\* orchestrator._readyToRunTask
readyToRunTask(h, t) == \A i \in 1..Len(Dep(t)) : h.done[Dep(t)[i]]

\* orchestrator._isDone
isDone(h) == \A i \in 1..Len(h.seq) : h.done[h.seq[i]]

\* orchestrator.stop: the 'stop' or 'err' event, then doneCallback(err)
stop(h, err) ==
  LET h1 == [h EXCEPT !.isRunning = FALSE, !.failed = @ \/ err]
  IN IF h.doneCallback = "reload"
     THEN [h1 EXCEPT !.reloads = @ + 1,
                     !.reloadErrs = IF err THEN @ + 1 ELSE @]
     ELSE h1

RECURSIVE start(_, _, _)
RECURSIVE runStep(_, _)
RECURSIVE runTask(_, _)
RECURSIVE taskCallback(_, _, _)
RECURSIVE runNextSet(_)
RECURSIVE finish(_, _)
RECURSIVE onTaskEnd(_, _)

\* orchestrator.start(names..., cb)
start(h, names, cb) ==
  LET h1 == [h EXCEPT !.doneCallback = IF cb = "none" THEN @ ELSE cb]
      h2 == IF h.isRunning THEN resetSpecificTasks(h1, names)
            ELSE resetAllTasks(h1)
      all == IF h.isRunning THEN names \o h.seq ELSE names
      h3 == [h2 EXCEPT !.seq = sequence(all, <<>>), !.isRunning = TRUE]
  IN runStep(h3, 1)

\* orchestrator._runStep, from position i of seq
runStep(h, i) ==
  IF ~h.isRunning THEN h
  ELSE IF i > Len(h.seq) THEN (IF isDone(h) THEN stop(h, FALSE) ELSE h)
  ELSE LET t == h.seq[i] IN
       IF ~h.done[t] /\ ~h.running[t] /\ readyToRunTask(h, t)
       THEN runStep(runTask(h, t), i + 1)
       ELSE runStep(h, i + 1)

\* orchestrator._runTask: call the task's function
runTask(h, t) ==
  LET h1 == [h EXCEPT !.running[t] = TRUE, !.started[t] = @ + 1,
                      !.work[t] = "busy"]
  IN CASE t \in ReadsFaviconData /\ ~h.faviconData ->
            \* readFileSync throws: the runner takes the exception as the error
            taskCallback([h1 EXCEPT !.work[t] = "finished"], t, TRUE)
       [] t = "serve" ->
            taskCallback([h1 EXCEPT !.work[t] = "finished", !.watching = TRUE],
                         t, FALSE)
       [] t = "inject-favicon-markups" ->
            \* the stream is not returned: finished for the runner, still piping
            taskCallback(h1, t, FALSE)
       [] t \in {"default", "dist"} ->
            \* runSequence(...): register the listeners, start the first set
            runNextSet([h1 EXCEPT !.rsOn = TRUE, !.taskSets = TaskSetsOf(t),
                                  !.rsCb = t])
       [] OTHER -> h1

\* the callback orchestrator hands to a task: _stopTask, the task_stop or
\* task_err event (run-sequence listens to both), then stop or _runStep
taskCallback(h, t, err) ==
  LET h1 == [h EXCEPT !.running[t] = FALSE, !.done[t] = TRUE,
                      !.reported[t] = IF err THEN "err" ELSE "ok",
                      !.work[t] = IF Kind(t) = "sync" THEN @ ELSE "finished"]
      h2 == IF ~h1.rsOn THEN h1
            ELSE IF err THEN finish(h1, TRUE)
            ELSE onTaskEnd(h1, t)
  IN IF err THEN stop(h2, TRUE) ELSE runStep(h2, 1)

\* run-sequence: onTaskEnd
onTaskEnd(h, t) ==
  LET h1 == [h EXCEPT !.currentTaskSet = @ \ {t}]
  IN IF h1.currentTaskSet = {} THEN runNextSet(h1) ELSE h1

\* run-sequence: runNextSet
runNextSet(h) ==
  IF h.taskSets # <<>>
  THEN LET command == Head(h.taskSets)
       IN start([h EXCEPT !.taskSets = Tail(@),
                          !.currentTaskSet = Range(command)],
                command, "none")
  ELSE finish(h, FALSE)

\* run-sequence: finish removes the listeners and calls the task's callback
finish(h, err) == taskCallback([h EXCEPT !.rsOn = FALSE], h.rsCb, err)


\* ---------------------------------------------------------------- actions
NoImg ==
  [ran |-> FALSE, input |-> [f \in ImgFiles |-> Absent], calls |-> 0,
   clean |-> FALSE, repeat |-> FALSE, sameOut |-> FALSE]
NoLint == [ran |-> FALSE, hadErr |-> FALSE, active |-> FALSE, err |-> FALSE]
NoStyles == [ran |-> FALSE, hadErr |-> FALSE, err |-> FALSE]

Init ==
  /\ faviconData = FALSE
  /\ proc = "none" /\ cmd = "none" /\ runs = 0 /\ events = 0
  /\ isRunning = FALSE /\ seq = <<>>
  /\ done = [t \in Tasks |-> FALSE] /\ running = [t \in Tasks |-> FALSE]
  /\ doneCallback = "none" /\ rsOn = FALSE /\ taskSets = <<>>
  /\ currentTaskSet = {} /\ rsCb = "none"
  /\ started = [t \in Tasks |-> 0] /\ reported = [t \in Tasks |-> "none"]
  /\ work = [t \in Tasks |-> "idle"]
  /\ failed = FALSE /\ crashed = FALSE /\ watching = FALSE /\ active = FALSE
  /\ lintFailOn = FALSE /\ lintActive = FALSE
  /\ ev = [b \in Bindings |-> 0]
  /\ reloads = 0 /\ reloadErrs = 0
  /\ lintErr = FALSE /\ sassErr = FALSE
  /\ resImages = [f \in ImgFiles |-> 1]
  /\ pubImages = [f \in ImgFiles |-> Absent]
  /\ cache = {} /\ optCalls = 0 /\ pubStyles = "absent"
  /\ cleanSince = FALSE /\ lastImg = NoImg
  /\ lastLint = NoLint /\ lastStyles = NoStyles

\* the process is gone and its heap with it: what is left of it is its exit
\* code (failed, crashed) and what it printed about the task it was asked for
EndProcess ==
  /\ proc' = "exit"
  /\ Commit([FreshHeap EXCEPT !.failed = failed,
                              !.reported[cmd] = reported[cmd]])
  /\ active' = FALSE /\ lintFailOn' = FALSE /\ lintActive' = FALSE
  /\ ev' = [b \in Bindings |-> 0]
  /\ lastLint' = NoLint /\ lastStyles' = NoStyles
  /\ UNCHANGED <<cmd, runs, events, fsVars>>

\* the lint pipe is built when the task's function is called: the condition
\* of $.if is read then
LintPipe(h) ==
  IF h.started["lint"] > started["lint"]
  THEN lintFailOn' = LintFailOnError(active) /\ lintActive' = active
  ELSE UNCHANGED <<lintFailOn, lintActive>>

\* `gulp <task>`: a new process; the CLI calls gulp.start(task)
Invoke(c) ==
  /\ proc # "live" /\ runs < MaxRuns
  /\ LET h == start(FreshHeap, <<c>>, "none")
     IN /\ Commit(h)
        /\ lintFailOn' = (h.started["lint"] > 0 /\ LintFailOnError(FALSE))
        /\ lintActive' = FALSE
  /\ proc' = "live" /\ cmd' = c /\ runs' = runs + 1
  /\ crashed' = FALSE /\ active' = FALSE /\ ev' = [b \in Bindings |-> 0]
  /\ lastLint' = NoLint /\ lastStyles' = NoStyles
  /\ UNCHANGED <<events, fsVars>>

\* the end of a task's stream, promise or callback, with or without an error
Ends(t, err) ==
  /\ proc = "live" /\ running[t] /\ work[t] = "busy"
  /\ Kind(t) \in {"stream", "promise", "callback"}
  /\ LET h == taskCallback(Heap, t, err)
     IN Commit(h) /\ LintPipe(h)
  /\ UNCHANGED <<proc, cmd, runs, events, crashed, active, ev>>

FinishClean ==
  \E err \in BOOLEAN :
    /\ Ends("clean", err)
    /\ pubStyles' = IF ~err /\ "public/styles" \in CleanTargets
                    THEN "absent" ELSE pubStyles
    /\ cache' = IF ~err /\ "imagecache" \in CleanTargets THEN {} ELSE cache
    /\ pubImages' = IF ~err /\ "public/images" \in CleanTargets
                    THEN [f \in ImgFiles |-> Absent] ELSE pubImages
    /\ cleanSince' = (cleanSince \/ ~err)
    /\ UNCHANGED <<lintErr, sassErr, resImages, optCalls, faviconData,
                   lastImg, lastLint, lastStyles>>

\* a Sass syntax error goes to $.sass.logError, which logs it and ends the
\* stream: nothing is written and the task ends without an error
FinishStyles ==
  \E err \in BOOLEAN :
    /\ Ends("styles", err)
    /\ pubStyles' = IF ~err /\ ~sassErr THEN "compiled" ELSE pubStyles
    /\ lastStyles' = [ran |-> TRUE, hadErr |-> sassErr, err |-> err]
    /\ UNCHANGED <<lintErr, sassErr, resImages, pubImages, cache, optCalls,
                   faviconData, cleanSince, lastImg, lastLint>>

FinishLint ==
  LET err == lintErr /\ lintFailOn IN
    /\ Ends("lint", err)
    /\ lastLint' = [ran |-> TRUE, hadErr |-> lintErr, active |-> lintActive,
                    err |-> err]
    /\ UNCHANGED <<fsVars, lastStyles>>

\* $.cache($.imagemin()): a file whose bytes are in the cache is restored
\* from it, any other file goes through imagemin and is stored
FinishImages ==
  LET present == {f \in ImgFiles : resImages[f] # Absent}
      missed == {resImages[f] : f \in present} \ cache
      out == [f \in ImgFiles |->
                IF f \in present THEN Imagemin(resImages[f]) ELSE pubImages[f]]
  IN /\ Ends("images", FALSE)
     /\ cache' = cache \cup missed
     /\ optCalls' = optCalls + Cardinality(missed)
     /\ pubImages' = out
     /\ lastImg' = [ran |-> TRUE, input |-> resImages,
                    calls |-> Cardinality(missed), clean |-> cleanSince,
                    repeat |-> (lastImg.ran /\ lastImg.input = resImages),
                    sameOut |-> (out = pubImages)]
     /\ cleanSince' = FALSE
     /\ UNCHANGED <<lintErr, sassErr, resImages, pubStyles, faviconData,
                    lastLint, lastStyles>>

FinishUncss ==
  \E err \in BOOLEAN :
    /\ Ends("uncss", err)
    /\ pubStyles' = IF ~err /\ pubStyles = "compiled" THEN "stripped"
                    ELSE pubStyles
    /\ UNCHANGED <<lintErr, sassErr, resImages, pubImages, cache, optCalls,
                   faviconData, cleanSince, lastImg, lastLint,
                   lastStyles>>

\* function() { done(); }: no error is ever passed on
FinishGenerateFavicon ==
  /\ Ends("generate-favicon", FALSE)
  /\ faviconData' = TRUE
  /\ UNCHANGED <<lintErr, sassErr, resImages, pubImages, cache, optCalls,
                 pubStyles, cleanSince, lastImg, lastLint, lastStyles>>

FinishOther(t) ==
  /\ t \in {"scripts", "html", "htmlhint", "pageres", "pagespeed"}
  /\ \E err \in (IF t \in MayFail THEN BOOLEAN ELSE {FALSE}) : Ends(t, err)
  /\ UNCHANGED <<fsVars, lastLint, lastStyles>>

\* the stream 'inject-favicon-markups' did not return comes to its end
InjectDone ==
  /\ proc = "live" /\ work["inject-favicon-markups"] = "busy"
  /\ work' = [work EXCEPT !["inject-favicon-markups"] = "finished"]
  /\ UNCHANGED <<proc, cmd, runs, events, isRunning, seq, done, running,
                 doneCallback, rsOn, taskSets, currentTaskSet, rsCb, started,
                 reported, failed, watching, reloads, reloadErrs, crashed,
                 active, lintFailOn, lintActive, ev, fsVars, lastLint, lastStyles>>

\* the callback of realFavicon.checkForUpdates: throws on an error, and
\* otherwise returns without calling done
CheckForUpdatesCallback(err) ==
  /\ proc = "live" /\ work["check-for-favicon-update"] = "busy"
  /\ crashed' = err
  /\ IF err THEN EndProcess
     ELSE /\ work' = [work EXCEPT !["check-for-favicon-update"] = "finished"]
          /\ UNCHANGED <<proc, cmd, runs, events, isRunning, seq, done,
                         running, doneCallback, rsOn, taskSets, currentTaskSet,
                         rsCb, started, reported, failed, watching, reloads,
                         reloadErrs, active, lintFailOn, lintActive, ev, fsVars, lastLint,
                         lastStyles>>

\* an 'error' event of a plugin in the middle of a pipe: uncaught exception
Crash(t) ==
  /\ proc = "live" /\ t \in MayCrash /\ work[t] = "busy"
  /\ crashed' = TRUE
  /\ EndProcess

\* node leaves when nothing is pending: no pipeline, no watcher
Exit ==
  /\ proc = "live" /\ ~watching
  /\ \A t \in Tasks : work[t] # "busy"
  /\ EndProcess
  /\ UNCHANGED crashed

\* the watch process ends only when it is shut down
Shutdown ==
  /\ proc = "live" /\ watching
  /\ EndProcess
  /\ UNCHANGED crashed

\* browserSync(...) has started its server
BrowserSyncReady ==
  /\ proc = "live" /\ watching /\ ~active
  /\ active' = TRUE
  /\ UNCHANGED <<proc, cmd, runs, events, orcVars, crashed, lintFailOn, lintActive, ev,
                 fsVars, lastLint, lastStyles>>

\* a file under the glob of binding b is saved; when the bindings are
\* registered the watcher calls gulp.start(tasks..., reload).  A one-shot
\* build reads its sources when a task ends, so a save during the build is
\* the same save before it: saves are taken between builds and while watching
Changed(b, max) ==
  /\ events < max
  /\ proc # "live" \/ watching
  /\ events' = events + 1
  /\ IF proc = "live" /\ watching
     THEN LET h == start(Heap, WatchTasks(b), "reload")
          IN Commit(h) /\ LintPipe(h) /\ ev' = [ev EXCEPT ![b] = @ + 1]
     ELSE UNCHANGED <<orcVars, lintFailOn, lintActive, ev>>
  /\ UNCHANGED <<proc, cmd, runs, crashed, active, lastLint, lastStyles,
                 pubImages, cache, optCalls, pubStyles, faviconData,
                 cleanSince, lastImg>>

EditTwig(max) ==
  /\ proc = "live" /\ watching
  /\ Changed("twig", max)
  /\ UNCHANGED <<lintErr, sassErr, resImages>>

EditStyles(bad, max) ==
  /\ Changed("styles", max)
  /\ sassErr' = bad
  /\ UNCHANGED <<lintErr, resImages>>

EditScripts(bad, max) ==
  /\ Changed("scripts", max)
  /\ lintErr' = bad
  /\ UNCHANGED <<sassErr, resImages>>

EditImages(f, c, max) ==
  /\ Changed("images", max)
  /\ resImages' = [resImages EXCEPT ![f] = c]
  /\ UNCHANGED <<lintErr, sassErr>>

Next ==
  \/ \E c \in Tasks : Invoke(c)
  \/ FinishClean
  \/ FinishStyles
  \/ FinishLint
  \/ FinishImages
  \/ FinishUncss
  \/ FinishGenerateFavicon
  \/ \E t \in Tasks : FinishOther(t)
  \/ InjectDone
  \/ \E err \in BOOLEAN : CheckForUpdatesCallback(err)
  \/ \E t \in Tasks : Crash(t)
  \/ Exit
  \/ Shutdown
  \/ BrowserSyncReady
  \/ EditTwig(MaxEvents)
  \/ \E bad \in BOOLEAN : EditStyles(bad, MaxEvents)
  \/ \E bad \in BOOLEAN : EditScripts(bad, MaxEvents)
  \/ \E f \in ImgFiles, c \in Contents : EditImages(f, c, MaxEvents)

\* every gulp command, with the saves that may come between and during them
Spec == Init /\ [][Next]_vars

NextWatch ==
  \/ Invoke("serve")
  \/ FinishStyles
  \/ FinishLint
  \/ FinishImages
  \/ \E t \in Tasks : FinishOther(t)
  \/ \E t \in Tasks : Crash(t)
  \/ Shutdown
  \/ BrowserSyncReady
  \/ EditTwig(MaxChanges)
  \/ \E bad \in BOOLEAN : EditStyles(bad, MaxChanges)
  \/ \E bad \in BOOLEAN : EditScripts(bad, MaxChanges)
  \/ \E f \in ImgFiles, c \in Contents : EditImages(f, c, MaxChanges)

\* `gulp serve` alone, with more saves: the watch bindings at work
SpecWatch == Init /\ [][NextWatch]_vars


\* ------------------------------------------------------------------ claims
OneShot == proc = "live" /\ cmd \in {"default", "dist"}
Batch == Range(TaskSetsOf(cmd)[Len(TaskSetsOf(cmd))])
Plan == {"clean", "styles"} \cup Batch
Busy(t) == work[t] = "busy"
Quiet == \A t \in Tasks : ~Busy(t)
Changes == ev["twig"] + ev["styles"] + ev["scripts"] + ev["images"]

\* C1: in a run of 'default', 'styles' has completed before 'lint', 'scripts'
\* or 'images' begins, and 'default' reports success only when all three
\* have completed.
C1_StylesBeforeBatch ==
  (proc = "live" /\ cmd = "default") =>
    /\ \A t \in {"lint", "scripts", "images"} :
         started[t] > 0 => reported["styles"] = "ok" /\ ~Busy("styles")
    /\ reported["default"] = "ok" =>
         \A t \in {"lint", "scripts", "images"} :
           reported[t] = "ok" /\ work[t] = "finished"

\* 'default' has reported success
C1_Witness ==
  /\ proc = "live" /\ cmd = "default" /\ reported["default"] = "ok"
  /\ started["images"] = 1

\* C4: in a run of 'default' or 'dist' no task runs twice, nothing but 'clean'
\* starts before 'clean' has completed (public/styles is gone when 'styles'
\* is at work), the batch starts after 'styles', and a run that reports
\* success has run every task of its plan exactly once.
C4_PlanOnceAfterPrerequisites ==
  OneShot =>
    /\ \A t \in Tasks : started[t] <= 1
    /\ \A t \in Tasks \ {"clean"} :
         started[t] > 0 => reported["clean"] = "ok" /\ work["clean"] = "finished"
    /\ Busy("styles") => pubStyles = "absent"
    /\ \A t \in Batch : started[t] > 0 => reported["styles"] = "ok"
    /\ reported[cmd] = "ok" => \A t \in Plan : started[t] = 1

\* 'dist' has reported success, every task of its plan having run
C4_Witness ==
  /\ proc = "live" /\ cmd = "dist" /\ reported["dist"] = "ok"
  /\ \A t \in Plan : reported[t] = "ok"

\* C7: in a run of 'dist', once 'uncss' has begun, 'clean' has run its one
\* time and is over and 'styles' has completed; the stylesheet 'styles'
\* compiled is what 'uncss' finds.
C7_UncssAfterCleanAndStyles ==
  (proc = "live" /\ cmd = "dist" /\ started["uncss"] > 0) =>
    /\ started["clean"] = 1 /\ work["clean"] = "finished"
    /\ reported["clean"] = "ok"
    /\ work["styles"] = "finished" /\ reported["styles"] = "ok"
    /\ (Busy("uncss") /\ ~lastStyles.hadErr) => pubStyles = "compiled"

\* 'uncss' at work in a run of 'dist', on the compiled stylesheet
C7_Witness ==
  /\ proc = "live" /\ cmd = "dist" /\ Busy("uncss") /\ pubStyles = "compiled"

\* C8, as claimed: leaving 'clean' aside, no directory is written by two
\* tasks of the plan, and the rest of the claim.
C8_NoDirectoryWrittenTwice ==
  OneShot =>
    \A t1, t2 \in Tasks \ {"clean"} :
      (t1 # t2 /\ started[t1] > 0 /\ started[t2] > 0) =>
        Writes(t1) \cap Writes(t2) = {}

\* C8, amended: no two tasks at work at the same time write, or read and
\* write, the same directory, and a task at work reads only directories
\* whose other writers in the plan have all completed.
C8_NoConcurrentSharing ==
  OneShot =>
    /\ \A t1, t2 \in Tasks :
         (t1 # t2 /\ Busy(t1) /\ Busy(t2)) =>
           Writes(t1) \cap (Writes(t2) \cup Reads(t2)) = {}
    /\ \A t \in Tasks : Busy(t) =>
         \A w \in Plan \ {t} :
           Writes(w) \cap Reads(t) # {} =>
             work[w] = "finished" /\ reported[w] = "ok"

\* 'uncss' rewriting public/styles while 'scripts' and 'images' are at work
C8_Witness ==
  /\ proc = "live" /\ cmd = "dist"
  /\ Busy("uncss") /\ Busy("scripts") /\ Busy("images")

\* C9: a lint error fails 'lint' exactly when browserSync was not active when
\* the task was called; in a one-shot run it fails the run, under an active
\* server 'lint' reports success and the reload comes when the rebuild ends.
C9_LintFailsUnlessServing ==
  (proc = "live" /\ lastLint.ran /\ lastLint.hadErr) =>
    /\ lastLint.err <=> ~lastLint.active
    /\ cmd \in {"default", "dist", "lint"} =>
         reported["lint"] = "err" /\ failed /\ reported[cmd] = "err"
    /\ lastLint.active =>
         /\ reported["lint"] = "ok" /\ started["scripts"] > 0
         /\ (~isRunning /\ ~failed) => reloads > 0

\* a lint error under an active server: 'lint' and 'scripts' ended well and
\* the reload was made
C9_Witness ==
  /\ proc = "live" /\ cmd = "serve"
  /\ lastLint.ran /\ lastLint.hadErr /\ lastLint.active /\ ~lastLint.err
  /\ reported["scripts"] = "ok" /\ reloads > 0

\* C6: a run of 'images' on the bytes the run before it had calls imagemin
\* not once and leaves public/images as it was, 'clean' in between or not.
C6_RepeatedImagesUsesCache ==
  (lastImg.ran /\ lastImg.repeat) => (lastImg.calls = 0 /\ lastImg.sameOut)

\* a repeated run of 'images' after a 'clean', the first run having called
\* imagemin
C6_Witness ==
  /\ lastImg.ran /\ lastImg.repeat /\ lastImg.clean
  /\ optCalls > 0 /\ runs = 2

\* C2, as claimed: no reload is made when a bound task failed, and when the
\* rebuilds are over there has been one reload for each change.
C2_OneReloadPerChangeOnSuccess ==
  (proc = "live" /\ watching) =>
    /\ reloadErrs = 0
    /\ (Quiet /\ ~failed) => reloads = Changes

\* C3, as claimed: when 'styles' met a syntax error or failed, no task of the
\* following batch was started and the run reports failure.
C3_StylesErrorStopsRun ==
  (OneShot /\ lastStyles.ran /\ (lastStyles.hadErr \/ lastStyles.err)) =>
    /\ \A t \in Batch : started[t] = 0
    /\ reported[cmd] = "err" /\ failed

\* C5, as claimed: every change is followed by its own rebuild, so when the
\* rebuilds are over each bound task has run once for each change.
C5_EveryChangeRebuilds ==
  (proc = "live" /\ watching /\ Quiet /\ ~failed) =>
    \A b \in Bindings : \A i \in 1..Len(WatchTasks(b)) :
      started[WatchTasks(b)[i]] = ev[b]

\* C10, as claimed: a one-shot task is reported complete only when its work
\* is over, and the process asked for it does not leave without a report of
\* the task or of a failure.
C10_SignalsWhenWorkIsOver ==
  \A t \in Tasks \ {"serve"} :
    /\ (proc = "live" /\ reported[t] = "ok") => work[t] = "finished"
    /\ (proc = "exit" /\ cmd = t /\ ~crashed /\ ~failed) =>
         reported[t] # "none"

====
